---- MODULE Spec2Model ----
(***************************************************************************)
(* 24DIGI revenue calculator and forecasting engine.                       *)
(*                                                                         *)
(* DataManager (modules/data_manager.py), RevenueCalculator                *)
(* (modules/calculator.py) and Forecaster (modules/forecaster.py) as a     *)
(* state machine over the pricing catalogue, the customer inputs and the   *)
(* streamlit session copies of both.                                       *)
(*                                                                         *)
(* Arithmetic.  Python computes with binary floating point; the model      *)
(* computes with exact rationals [n, d] kept in lowest terms.  A division  *)
(* by zero (Python's ZeroDivisionError) yields the rational with d = 0,    *)
(* which every later operation propagates; the action that executed it     *)
(* ends with outcome "raise".                                              *)
(***************************************************************************)
EXTENDS Integers, Sequences, FiniteSets, TLC

(***************************************************************************)
(* Bounds of the model.                                                    *)
(***************************************************************************)
MaxMonths == 2
MaxFixedCosts == 2
MaxSeasonMonth == 25
MaxPeriods == 3
MaxCustomers == 2

(***************************************************************************)
(* Exact rational arithmetic.                                              *)
(***************************************************************************)
Abs(x) == IF x < 0 THEN -x ELSE x

RECURSIVE GCD(_, _)
GCD(a, b) == IF b = 0 THEN a ELSE GCD(b, a % b)

DivZero == [n |-> 0, d |-> 0]

Rat(n, d) ==
    IF d = 0 THEN DivZero
    ELSE LET g == GCD(Abs(n), Abs(d))
             s == IF d < 0 THEN -1 ELSE 1
         IN  [n |-> s * (n \div g), d |-> s * (d \div g)]

Q(i) == [n |-> i, d |-> 1]

RMul(a, b) ==
    IF a.d = 0 \/ b.d = 0 THEN DivZero
    ELSE LET g1 == GCD(Abs(a.n), b.d)
             g2 == GCD(Abs(b.n), a.d)
         IN  [n |-> (a.n \div g1) * (b.n \div g2),
              d |-> (a.d \div g2) * (b.d \div g1)]

RDiv(a, b) ==
    IF a.d = 0 \/ b.d = 0 \/ b.n = 0 THEN DivZero
    ELSE RMul(a, IF b.n < 0 THEN [n |-> -b.d, d |-> -b.n]
                 ELSE [n |-> b.d, d |-> b.n])

RAdd(a, b) ==
    IF a.d = 0 \/ b.d = 0 THEN DivZero
    ELSE LET g == GCD(a.d, b.d)
             l == (a.d \div g) * b.d
         IN  Rat(a.n * (l \div a.d) + b.n * (l \div b.d), l)

RNeg(a) == [n |-> -a.n, d |-> a.d]

RSub(a, b) == RAdd(a, RNeg(b))

\* a > b on rationals
RGt(a, b) == a.n * b.d > b.n * a.d

RGe(a, b) == a.n * b.d >= b.n * a.d

\* Python's int(): truncation toward zero
Trunc(a) == IF a.n >= 0 THEN a.n \div a.d ELSE -((-a.n) \div a.d)

Raised(a) == a.d = 0

(***************************************************************************)
(* config/app_config.py                                                    *)
(***************************************************************************)
SUBSCRIPTION_TYPES == <<"VIP", "Normal", "Custom">>

SUBSCRIPTION_DURATIONS == <<1, 3>>

Tiers == {"VIP", "Normal", "Custom"}

PE(c, s, p) == [cost |-> c, selling |-> s, profit |-> p]

\* The key structure of AppConfig.DEFAULT_PRICING.  The amounts are editable
\* data; they are taken at about 1/100 of the shipped figures so that exact
\* arithmetic on the totals stays inside TLC's integers.
DEFAULT_PRICING ==
    [VIP |->
        [mealsPerMonth |-> PE(10, 15, 5), meals3Months |-> PE(30, 45, 15),
         deliveryPerMonth |-> PE(2, 2, 0), delivery3Months |-> PE(6, 6, 0),
         bracelet |-> PE(3, 8, 5), pointsX10 |-> PE(3, 2, -1),
         digitalProfit |-> 5,
         carOneMonth |-> PE(55, 55, 0), carThreeMonths |-> PE(165, 165, 0)],
     Normal |->
        [mealsPerMonth |-> PE(9, 13, 4), meals3Months |-> PE(27, 39, 12),
         deliveryPerMonth |-> PE(2, 2, 0), delivery3Months |-> PE(6, 6, 0),
         bracelet |-> PE(3, 6, 3), pointsX10 |-> PE(1, 0, -1),
         digitalProfit |-> 5,
         carOneMonth |-> PE(65, 65, 0), carThreeMonths |-> PE(195, 195, 0)],
     Custom |->
        [mealsPerMonth |-> PE(10, 15, 5), meals3Months |-> PE(30, 45, 15),
         deliveryPerMonth |-> PE(2, 2, 0), delivery3Months |-> PE(6, 6, 0),
         braceletVIP |-> PE(3, 8, 5), braceletNormal |-> PE(3, 6, 3),
         pointsX10 |-> PE(0, 0, 0),
         cbyiOneMonth |-> PE(17, 17, 0), cbyiThreeMonths |-> PE(51, 51, 0),
         cbyiBraceletVIP |-> PE(0, 8, 8), cbyiBraceletNormal |-> PE(0, 6, 6)]]

CI(c, r) == [customers |-> c, renewals |-> r]

\* The key structure of AppConfig.DEFAULT_INPUTS, with small quantities.
DEFAULT_INPUTS ==
    [VIP_1_month |-> CI(2, 1), VIP_3_months |-> CI(1, 0),
     Normal_1_month |-> CI(1, 1), Normal_3_months |-> CI(1, 1),
     Custom_1_month |-> CI(1, 0), Custom_3_months |-> CI(1, 1),
     additional_bracelets |-> 2, challenge_participants |-> 1,
     adventure_participants |-> 1, competition_participants |-> 1,
     cbyi_non_subscribers |-> 2, bracelets_non_subscribers |-> 2,
     car_rental_customers |-> 0,
     challenge_fee |-> 25, adventure_fee |-> 40, competition_fee |-> 35]

(***************************************************************************)
(* Python dict access.                                                     *)
(***************************************************************************)
\* d.get(k, default)
Get(d, k, default) == IF k \in DOMAIN d THEN d[k] ELSE default

EmptyDict == [k \in {} |-> 0]

\* d.update(u)
DictUpdate(d, u) ==
    [k \in DOMAIN d \cup DOMAIN u |-> IF k \in DOMAIN u THEN u[k] ELSE d[k]]

\* d with d[k] = v
DictSet(d, k, v) == [x \in DOMAIN d \cup {k} |-> IF x = k THEN v ELSE d[x]]

(***************************************************************************)
(* A parsed JSON document / the value held in pricing_data.  An object is  *)
(* [kind |-> "object", val |-> dict]; a list and a string carry in val the *)
(* set of tier names that Python's `in` finds in them; a number and null   *)
(* carry nothing `in` can search.                                          *)
(***************************************************************************)
Obj(d) == [kind |-> "object", val |-> d]

(***************************************************************************)
(* modules/data_manager.py                                                 *)
(***************************************************************************)
KeyOf(sub_type, duration) ==
    IF sub_type = "VIP" THEN (IF duration = 1 THEN "VIP_1_month" ELSE "VIP_3_months")
    ELSE IF sub_type = "Normal"
         THEN (IF duration = 1 THEN "Normal_1_month" ELSE "Normal_3_months")
         ELSE (IF duration = 1 THEN "Custom_1_month" ELSE "Custom_3_months")

DisplayName(sub_type, duration) ==
    IF sub_type = "VIP" THEN (IF duration = 1 THEN "VIP - 1 Month" ELSE "VIP - 3 Months")
    ELSE IF sub_type = "Normal"
         THEN (IF duration = 1 THEN "Normal - 1 Month" ELSE "Normal - 3 Months")
         ELSE (IF duration = 1 THEN "Custom - 1 Month" ELSE "Custom - 3 Months")

\* the list of (type, duration) combinations, types outermost
get_subscription_combinations ==
    [i \in 1..(Len(SUBSCRIPTION_TYPES) * Len(SUBSCRIPTION_DURATIONS)) |->
        LET t == SUBSCRIPTION_TYPES[((i - 1) \div Len(SUBSCRIPTION_DURATIONS)) + 1]
            d == SUBSCRIPTION_DURATIONS[((i - 1) % Len(SUBSCRIPTION_DURATIONS)) + 1]
        IN  [type |-> t, duration |-> d, key |-> KeyOf(t, d),
             display_name |-> DisplayName(t, d)]]

ComboKeys == {get_subscription_combinations[i].key :
                 i \in DOMAIN get_subscription_combinations}

\* pricing.get(component, {}).get(field, 0)
Price(pricing, component, field) ==
    Get(Get(pricing, component, EmptyDict), field, 0)

\* the 3-month package taken as three times the monthly meals and delivery
PackageSum_TripleMonthly(pricing, duration, field) ==
    IF duration = 1
    THEN Price(pricing, "mealsPerMonth", field)
         + Price(pricing, "deliveryPerMonth", field)
         + Price(pricing, "bracelet", field)
         + Price(pricing, "pointsX10", field)
    ELSE 3 * Price(pricing, "mealsPerMonth", field)
         + 3 * Price(pricing, "deliveryPerMonth", field)
         + Price(pricing, "bracelet", field)
         + Price(pricing, "pointsX10", field)

\* the two four-term sums of calculate_package_cost over one field
PackageSum(pricing, duration, field) ==
    IF duration = 1
    THEN Price(pricing, "mealsPerMonth", field)
         + Price(pricing, "deliveryPerMonth", field)
         + Price(pricing, "bracelet", field)
         + Price(pricing, "pointsX10", field)
    ELSE Price(pricing, "meals3Months", field)
         + Price(pricing, "delivery3Months", field)
         + Price(pricing, "bracelet", field)
         + Price(pricing, "pointsX10", field)

\* the profit taken from the stored 'profit' fields instead of recomputed
calculate_package_cost_StoredProfit(pd, subscription_type, duration) ==
    IF pd.kind # "object" THEN [exc |-> "AttributeError"]
    ELSE
    LET pricing == Get(pd.val, subscription_type, EmptyDict)
        package_cost == PackageSum(pricing, duration, "cost")
        package_revenue ==
            IF subscription_type # "Custom"
            THEN PackageSum(pricing, duration, "selling")
                 + Get(pricing, "digitalProfit", 0)
            ELSE PackageSum(pricing, duration, "selling")
    IN  [exc |-> "none", cost |-> package_cost, revenue |-> package_revenue,
         profit |-> PackageSum(pricing, duration, "profit")
                    + (IF subscription_type # "Custom"
                       THEN Get(pricing, "digitalProfit", 0) ELSE 0)]

calculate_package_cost(pd, subscription_type, duration) ==
    IF pd.kind # "object" THEN [exc |-> "AttributeError"]
    ELSE
    LET pricing == Get(pd.val, subscription_type, EmptyDict)
        package_cost == PackageSum(pricing, duration, "cost")
        package_revenue ==
            IF subscription_type # "Custom"
            THEN PackageSum(pricing, duration, "selling")
                 + Get(pricing, "digitalProfit", 0)
            ELSE PackageSum(pricing, duration, "selling")
    IN  [exc |-> "none", cost |-> package_cost, revenue |-> package_revenue,
         profit |-> package_revenue - package_cost]

\* pricing[tier][component] with both subscripts present
HasEntry(pd, tier, component) ==
    /\ tier \in DOMAIN pd.val
    /\ component \in DOMAIN pd.val[tier]
    /\ {"cost", "selling"} \subseteq DOMAIN pd.val[tier][component]

ServiceNames ==
    <<"Events & Challenges", "Additional Bracelets", "CBYI Services",
      "Non-Subscriber Bracelets", "Car Rental">>

get_additional_services_summary(pd, inp) ==
    IF pd.kind # "object" THEN [exc |-> "TypeError"]
    ELSE IF ~ (/\ HasEntry(pd, "VIP", "bracelet")
               /\ HasEntry(pd, "Custom", "cbyiOneMonth")
               /\ HasEntry(pd, "VIP", "carOneMonth"))
    THEN [exc |-> "KeyError"]
    ELSE
    LET pricing == pd.val
        challenge_revenue ==
            Get(inp, "challenge_fee", 25) * Get(inp, "challenge_participants", 200)
        adventure_revenue ==
            Get(inp, "adventure_fee", 40) * Get(inp, "adventure_participants", 150)
        competition_revenue ==
            Get(inp, "competition_fee", 35) * Get(inp, "competition_participants", 100)
        events_total == challenge_revenue + adventure_revenue + competition_revenue
        additional_bracelets == Get(inp, "additional_bracelets", 100)
        bracelet_cost == pricing["VIP"]["bracelet"]["cost"] * additional_bracelets
        bracelet_revenue == pricing["VIP"]["bracelet"]["selling"] * additional_bracelets
        cbyi_customers == Get(inp, "cbyi_non_subscribers", 50)
        cbyi_cost == pricing["Custom"]["cbyiOneMonth"]["cost"] * cbyi_customers
        cbyi_revenue == pricing["Custom"]["cbyiOneMonth"]["selling"] * cbyi_customers
        ns_bracelets == Get(inp, "bracelets_non_subscribers", 75)
        ns_bracelet_cost == pricing["VIP"]["bracelet"]["cost"] * ns_bracelets
        ns_bracelet_revenue == pricing["VIP"]["bracelet"]["selling"] * ns_bracelets
        car_customers == Get(inp, "car_rental_customers", 20)
        car_cost == pricing["VIP"]["carOneMonth"]["cost"] * car_customers
        car_revenue == pricing["VIP"]["carOneMonth"]["selling"] * car_customers
        S(c, r) == [cost |-> c, revenue |-> r, profit |-> r - c]
    IN  [exc |-> "none",
         val |-> [n \in {ServiceNames[i] : i \in DOMAIN ServiceNames} |->
                    CASE n = "Events & Challenges" -> S(0, events_total)
                      [] n = "Additional Bracelets" -> S(bracelet_cost, bracelet_revenue)
                      [] n = "CBYI Services" -> S(cbyi_cost, cbyi_revenue)
                      [] n = "Non-Subscriber Bracelets" ->
                             S(ns_bracelet_cost, ns_bracelet_revenue)
                      [] OTHER -> S(car_cost, car_revenue)]]

(***************************************************************************)
(* modules/calculator.py                                                   *)
(***************************************************************************)
\* the guarded ratio `(a / b * 100) if b > 0 else 0` on integers
Percent(a, b) == IF b > 0 THEN RMul(RDiv(Q(a), Q(b)), Q(100)) ELSE Q(0)

\* the guarded ratio `a / b if b > 0 else 0` on integers
PerCustomer(a, b) == IF b > 0 THEN RDiv(Q(a), Q(b)) ELSE Q(0)

\* one renewal price for both durations
RenewalPrice_Flat(duration) == 1500

RenewalPrice(duration) == IF duration = 1 THEN 1500 ELSE 4500

\* the guard written as `customers >= 0`
Included_NonNegative(customers) == customers >= 0

\* the `if customers > 0` of the combination loop
Included(customers) == customers > 0

SubscriptionEntry(pd, combo, customers, renewals) ==
    LET package_data == calculate_package_cost(pd, combo.type, combo.duration)
        total_cost == package_data.cost * customers
        total_revenue == package_data.revenue * customers
        renewal_revenue == renewals * RenewalPrice(combo.duration)
    IN  [type |-> combo.type,
         duration |-> combo.duration,
         customers |-> customers,
         renewals |-> renewals,
         cost_per_customer |-> package_data.cost,
         revenue_per_customer |-> package_data.revenue,
         total_cost |-> total_cost,
         total_revenue |-> total_revenue + renewal_revenue,
         total_profit |-> (total_revenue + renewal_revenue) - total_cost,
         profit_margin |->
            IF total_revenue > 0
            THEN RMul(RDiv(Q((total_revenue + renewal_revenue) - total_cost),
                           Q(total_revenue + renewal_revenue)), Q(100))
            ELSE Q(0),
         renewal_revenue |-> renewal_revenue]

_calculate_subscription_results(pd, inp) ==
    LET combinations == get_subscription_combinations
        Customers(c) == Get(Get(inp, c.key, EmptyDict), "customers", 0)
        Renewals(c) == Get(Get(inp, c.key, EmptyDict), "renewals", 0)
        present == {i \in DOMAIN combinations : Included(Customers(combinations[i]))}
    IN  IF present # {} /\ pd.kind # "object" THEN [exc |-> "AttributeError"]
        ELSE [exc |-> "none",
              val |-> [n \in {combinations[i].display_name : i \in present} |->
                         LET c == combinations[CHOOSE i \in present :
                                                  combinations[i].display_name = n]
                         IN  SubscriptionEntry(pd, c, Customers(c), Renewals(c))]]

\* the names of a result dictionary in insertion order
InOrder(names, d) == SelectSeq(names, LAMBDA n : n \in DOMAIN d)

DisplayNames ==
    [i \in DOMAIN get_subscription_combinations |->
        get_subscription_combinations[i].display_name]

RECURSIVE SumField(_, _, _)
SumField(d, names, field) ==
    IF names = <<>> THEN 0
    ELSE d[Head(names)][field] + SumField(d, Tail(names), field)

\* the service loop adding the revenue only
_calculate_totals_NoServiceCost(subscription_results, additional_results) ==
    LET subs == InOrder(DisplayNames, subscription_results)
        adds == InOrder(ServiceNames, additional_results)
        total_cost == SumField(subscription_results, subs, "total_cost")
        total_revenue == SumField(subscription_results, subs, "total_revenue")
                         + SumField(additional_results, adds, "revenue")
        total_customers == SumField(subscription_results, subs, "customers")
        total_profit == total_revenue - total_cost
    IN  [total_cost |-> total_cost,
         total_revenue |-> total_revenue,
         total_profit |-> total_profit,
         profit_margin |-> Percent(total_profit, total_revenue),
         total_customers |-> total_customers,
         revenue_per_customer |-> PerCustomer(total_revenue, total_customers),
         cost_per_customer |-> PerCustomer(total_cost, total_customers),
         profit_per_customer |-> PerCustomer(total_profit, total_customers)]

_calculate_totals(subscription_results, additional_results) ==
    LET subs == InOrder(DisplayNames, subscription_results)
        adds == InOrder(ServiceNames, additional_results)
        total_cost == SumField(subscription_results, subs, "total_cost")
                      + SumField(additional_results, adds, "cost")
        total_revenue == SumField(subscription_results, subs, "total_revenue")
                         + SumField(additional_results, adds, "revenue")
        total_customers == SumField(subscription_results, subs, "customers")
        total_profit == total_revenue - total_cost
    IN  [total_cost |-> total_cost,
         total_revenue |-> total_revenue,
         total_profit |-> total_profit,
         profit_margin |-> Percent(total_profit, total_revenue),
         total_customers |-> total_customers,
         revenue_per_customer |-> PerCustomer(total_revenue, total_customers),
         cost_per_customer |-> PerCustomer(total_cost, total_customers),
         profit_per_customer |-> PerCustomer(total_profit, total_customers)]

\* the last of the maximal items instead of the first
BestOf_LastMaximal(subscription_results) ==
    LET subs == InOrder(DisplayNames, subscription_results)
    IN  IF subs = <<>> THEN [name |-> "None", total_profit |-> 0]
        ELSE LET best == CHOOSE i \in DOMAIN subs :
                     /\ \A j \in DOMAIN subs :
                           subscription_results[subs[j]].total_profit
                              <= subscription_results[subs[i]].total_profit
                     /\ \A j \in (i + 1)..Len(subs) :
                           subscription_results[subs[j]].total_profit
                              < subscription_results[subs[i]].total_profit
             IN  [name |-> subs[best],
                  total_profit |-> subscription_results[subs[best]].total_profit]

\* max(items, key = total_profit, default = ('None', 0)): the first maximal item
BestOf(subscription_results) ==
    LET subs == InOrder(DisplayNames, subscription_results)
    IN  IF subs = <<>> THEN [name |-> "None", total_profit |-> 0]
        ELSE LET best == CHOOSE i \in DOMAIN subs :
                     /\ \A j \in DOMAIN subs :
                           subscription_results[subs[j]].total_profit
                              <= subscription_results[subs[i]].total_profit
                     /\ \A j \in 1..(i - 1) :
                           subscription_results[subs[j]].total_profit
                              < subscription_results[subs[i]].total_profit
             IN  [name |-> subs[best],
                  total_profit |-> subscription_results[subs[best]].total_profit]

_create_summary(subscription_results, additional_results, totals) ==
    LET best_subscription == BestOf(subscription_results)
    IN  [total_revenue |-> totals.total_revenue,
         total_profit |-> totals.total_profit,
         profit_margin |-> totals.profit_margin,
         total_customers |-> totals.total_customers,
         subscription_types_count |-> Cardinality(DOMAIN subscription_results),
         additional_services_count |-> Cardinality(DOMAIN additional_results),
         best_subscription |-> best_subscription.name,
         best_subscription_profit |-> best_subscription.total_profit]

\* the results dictionary assembled from its three parts
Results(subscription_results, additional_results, totals) ==
    [exc |-> "none",
     subscriptions |-> subscription_results,
     additional_services |-> additional_results,
     totals |-> totals,
     summary |-> _create_summary(subscription_results, additional_results, totals)]

\* the steps after the two partial results; an exception of either ends the call
Assemble(subscription_results, additional_results) ==
    IF subscription_results.exc # "none" THEN [exc |-> subscription_results.exc]
    ELSE IF additional_results.exc # "none" THEN [exc |-> additional_results.exc]
    ELSE Results(subscription_results.val, additional_results.val,
                 _calculate_totals(subscription_results.val, additional_results.val))

calculate_comprehensive_results(pd, inp) ==
    Assemble(_calculate_subscription_results(pd, inp),
             get_additional_services_summary(pd, inp))

\* a ** n for a whole n >= 0, by repeated multiplication
RECURSIVE RPow(_, _)
RPow(a, n) == IF n = 0 THEN Q(1) ELSE RMul(RPow(a, n - 1), a)

\* growth added month by month instead of compounded
GrowthFactor_Linear(growth_rate, month) ==
    RAdd(Q(1), RMul(growth_rate, Q(month)))

\* (1 + growth_rate) ** month
GrowthFactor(growth_rate, month) == RPow(RAdd(Q(1), growth_rate), month)

\* one pass of the month loop of calculate_growth_impact; st carries the loop
\* variables
GrowthMonth(st, month, growth_rate, monthly_revenue, monthly_cost) ==
    LET growth_factor == GrowthFactor(growth_rate, month)
        projected_revenue == RMul(monthly_revenue, growth_factor)
        projected_cost == RMul(monthly_cost, growth_factor)
        projected_profit == RSub(projected_revenue, projected_cost)
        cumulative_revenue == RAdd(st.cumulative_revenue, projected_revenue)
        cumulative_profit == RAdd(st.cumulative_profit, projected_profit)
    IN  [cumulative_revenue |-> cumulative_revenue,
         cumulative_profit |-> cumulative_profit,
         projected_data |-> Append(st.projected_data,
            [month |-> month,
             monthly_revenue |-> projected_revenue,
             monthly_cost |-> projected_cost,
             monthly_profit |-> projected_profit,
             cumulative_revenue |-> cumulative_revenue,
             cumulative_profit |-> cumulative_profit,
             growth_factor |-> growth_factor])]

RECURSIVE GrowthLoop(_, _, _, _, _, _)
GrowthLoop(st, month, periods, growth_rate, monthly_revenue, monthly_cost) ==
    IF month > periods THEN st
    ELSE GrowthLoop(GrowthMonth(st, month, growth_rate, monthly_revenue,
                                monthly_cost),
                    month + 1, periods, growth_rate, monthly_revenue, monthly_cost)

\* the dictionary returned after the month loop
GrowthResult(st, growth_rate, periods, monthly_revenue, monthly_cost) ==
    [exc |-> "none",
     base_monthly_revenue |-> monthly_revenue,
     base_monthly_profit |-> RSub(monthly_revenue, monthly_cost),
     growth_rate |-> growth_rate,
     periods |-> periods,
     projections |-> st.projected_data,
     total_projected_revenue |-> st.cumulative_revenue,
     total_projected_profit |-> st.cumulative_profit]

\* calculate_growth_impact after the current results have been computed
GrowthImpactOver(current_results, growth_rate, periods) ==
    IF current_results.exc # "none" THEN [exc |-> current_results.exc]
    ELSE GrowthResult(
            GrowthLoop([cumulative_revenue |-> Q(0), cumulative_profit |-> Q(0),
                        projected_data |-> <<>>],
                       1, periods, growth_rate,
                       RDiv(Q(current_results.totals.total_revenue), Q(3)),
                       RDiv(Q(current_results.totals.total_cost), Q(3))),
            growth_rate, periods,
            RDiv(Q(current_results.totals.total_revenue), Q(3)),
            RDiv(Q(current_results.totals.total_cost), Q(3)))

calculate_growth_impact(pd, inp, growth_rate, periods) ==
    GrowthImpactOver(calculate_comprehensive_results(pd, inp), growth_rate, periods)

\* the multiplier loop of calculate_scenario_analysis: every entry that is a
\* dictionary with 'customers' gets both counts multiplied and truncated.  The
\* entries are the dictionaries data_manager.inputs itself holds (both
\* .copy() calls are shallow), so this is also what the inputs become.
ApplyMultipliers(inp, scenario_data) ==
    [k \in DOMAIN inp |->
        IF k \in ComboKeys
        THEN CI(Trunc(RMul(Q(inp[k].customers),
                           Get(scenario_data, "customer_multiplier", Q(1)))),
                Trunc(RMul(Q(inp[k].renewals),
                           Get(scenario_data, "renewal_multiplier", Q(1)))))
        ELSE inp[k]]

\* one pass of the scenario loop once the scenario's results are known; st
\* carries the results so far and the data manager's inputs.  An exception
\* leaves temp_inputs in place; the restored original_inputs holds the same
\* multiplied entries.
ScenarioRun(st, scenario, temp_inputs, results) ==
    IF results.exc # "none"
    THEN [exc |-> results.exc, scenario_results |-> st.scenario_results,
          inputs |-> temp_inputs,
          last_calculation |-> st.last_calculation]
    ELSE [exc |-> "none",
          scenario_results |->
             (scenario.name :> [totals |-> results.totals,
                                scenario_params |-> scenario.data])
             @@ st.scenario_results,
          inputs |-> temp_inputs,
          last_calculation |-> results.totals]

\* one pass of the scenario loop over the multiplied inputs
ScenarioPass(st, pd, scenario, temp_inputs) ==
    ScenarioRun(st, scenario, temp_inputs,
                calculate_comprehensive_results(pd, temp_inputs))

\* the scenario loop, in the dictionary's order
RECURSIVE ScenarioLoop(_, _, _)
ScenarioLoop(st, pd, scenarios) ==
    IF scenarios = <<>> \/ st.exc # "none" THEN st
    ELSE ScenarioLoop(ScenarioPass(st, pd, Head(scenarios),
                                   ApplyMultipliers(st.inputs,
                                                    Head(scenarios).data)),
                      pd, Tail(scenarios))

\* calculate_scenario_analysis: the scenario results (or the exception) and
\* the data manager's inputs at exit
calculate_scenario_analysis(pd, inp, last, scenarios) ==
    ScenarioLoop([exc |-> "none", scenario_results |-> EmptyDict,
                  inputs |-> inp, last_calculation |-> last],
                 pd, scenarios)

(***************************************************************************)
(* modules/forecaster.py                                                   *)
(***************************************************************************)
\* a table with no seasonal variation
seasonality_map_Flat == [m \in 1..12 |-> Q(1)]

seasonality_map ==
    [m \in 1..12 |->
        CASE m = 1 -> Rat(9, 10)
          [] m = 2 -> Rat(19, 20)
          [] m = 3 -> Rat(11, 10)
          [] m = 4 -> Q(1)
          [] m = 5 -> Q(1)
          [] m = 6 -> Rat(21, 20)
          [] m = 7 -> Rat(19, 20)
          [] m = 8 -> Rat(9, 10)
          [] m = 9 -> Rat(11, 10)
          [] m = 10 -> Rat(21, 20)
          [] m = 11 -> Rat(23, 20)
          [] OTHER -> Rat(6, 5)]

\* the month looked up as it stands, without the wrap into 1..12
_get_seasonality_factor_NoWrap(month) ==
    Get(seasonality_map, month, Q(1))

_get_seasonality_factor(month) ==
    LET month_index == ((month - 1) % 12) + 1
    IN  Get(seasonality_map, month_index, Q(1))

\* the guard written as `b >= 0`
Margin_GuardGe(a, b) == IF RGe(b, Q(0)) THEN RMul(RDiv(a, b), Q(100)) ELSE Q(0)

\* `(a / b * 100) if b > 0 else 0` on projected amounts
Margin(a, b) == IF RGt(b, Q(0)) THEN RMul(RDiv(a, b), Q(100)) ELSE Q(0)

\* the month loop recording each month's own figures as the cumulative ones
ForecastMonth_NoAccumulate(st, month, growth_rate, retention_rate, base_monthly_revenue, base_monthly_cost, base_customers) ==
    LET new_customers == RDiv(RMul(st.current_customers, growth_rate), Q(12))
        retained_customers == RMul(st.current_customers, retention_rate)
        current_customers == RAdd(retained_customers, new_customers)
        customer_growth_factor == RDiv(current_customers, Q(base_customers))
        grown_revenue == RMul(base_monthly_revenue, customer_growth_factor)
        grown_cost == RMul(base_monthly_cost, customer_growth_factor)
        grown_profit == RSub(grown_revenue, grown_cost)
        cumulative_revenue == grown_revenue
        cumulative_cost == grown_cost
        cumulative_profit == grown_profit
        seasonality_factor == _get_seasonality_factor(month)
        monthly_revenue == RMul(grown_revenue, seasonality_factor)
        monthly_cost == RMul(grown_cost, seasonality_factor)
        monthly_profit == RSub(monthly_revenue, monthly_cost)
    IN  [current_customers |-> current_customers,
         cumulative_revenue |-> cumulative_revenue,
         cumulative_cost |-> cumulative_cost,
         cumulative_profit |-> cumulative_profit,
         raised |-> st.raised \/ Raised(customer_growth_factor),
         monthly_data |-> Append(st.monthly_data,
            [month |-> month,
             customers |-> Trunc(current_customers),
             new_customers |-> Trunc(new_customers),
             monthly_revenue |-> monthly_revenue,
             monthly_cost |-> monthly_cost,
             monthly_profit |-> monthly_profit,
             cumulative_revenue |-> cumulative_revenue,
             cumulative_cost |-> cumulative_cost,
             cumulative_profit |-> cumulative_profit,
             profit_margin |-> Margin(monthly_profit, monthly_revenue)])]

\* the growth factor taken against the previous month's customers instead of
\* the baseline fixed before the loop
ForecastMonth_RollingBase(st, month, growth_rate, retention_rate, base_monthly_revenue, base_monthly_cost, base_customers) ==
    LET new_customers == RDiv(RMul(st.current_customers, growth_rate), Q(12))
        retained_customers == RMul(st.current_customers, retention_rate)
        current_customers == RAdd(retained_customers, new_customers)
        customer_growth_factor == RDiv(current_customers, st.current_customers)
        grown_revenue == RMul(base_monthly_revenue, customer_growth_factor)
        grown_cost == RMul(base_monthly_cost, customer_growth_factor)
        grown_profit == RSub(grown_revenue, grown_cost)
        cumulative_revenue == RAdd(st.cumulative_revenue, grown_revenue)
        cumulative_cost == RAdd(st.cumulative_cost, grown_cost)
        cumulative_profit == RAdd(st.cumulative_profit, grown_profit)
        seasonality_factor == _get_seasonality_factor(month)
        monthly_revenue == RMul(grown_revenue, seasonality_factor)
        monthly_cost == RMul(grown_cost, seasonality_factor)
        monthly_profit == RSub(monthly_revenue, monthly_cost)
    IN  [current_customers |-> current_customers,
         cumulative_revenue |-> cumulative_revenue,
         cumulative_cost |-> cumulative_cost,
         cumulative_profit |-> cumulative_profit,
         raised |-> st.raised \/ Raised(customer_growth_factor),
         monthly_data |-> Append(st.monthly_data,
            [month |-> month,
             customers |-> Trunc(current_customers),
             new_customers |-> Trunc(new_customers),
             monthly_revenue |-> monthly_revenue,
             monthly_cost |-> monthly_cost,
             monthly_profit |-> monthly_profit,
             cumulative_revenue |-> cumulative_revenue,
             cumulative_cost |-> cumulative_cost,
             cumulative_profit |-> cumulative_profit,
             profit_margin |-> Margin(monthly_profit, monthly_revenue)])]

\* one pass of the month loop; st carries the loop variables
ForecastMonth(st, month, growth_rate, retention_rate, base_monthly_revenue, base_monthly_cost, base_customers) ==
    LET new_customers == RDiv(RMul(st.current_customers, growth_rate), Q(12))
        retained_customers == RMul(st.current_customers, retention_rate)
        current_customers == RAdd(retained_customers, new_customers)
        customer_growth_factor == RDiv(current_customers, Q(base_customers))
        grown_revenue == RMul(base_monthly_revenue, customer_growth_factor)
        grown_cost == RMul(base_monthly_cost, customer_growth_factor)
        grown_profit == RSub(grown_revenue, grown_cost)
        cumulative_revenue == RAdd(st.cumulative_revenue, grown_revenue)
        cumulative_cost == RAdd(st.cumulative_cost, grown_cost)
        cumulative_profit == RAdd(st.cumulative_profit, grown_profit)
        seasonality_factor == _get_seasonality_factor(month)
        monthly_revenue == RMul(grown_revenue, seasonality_factor)
        monthly_cost == RMul(grown_cost, seasonality_factor)
        monthly_profit == RSub(monthly_revenue, monthly_cost)
    IN  [current_customers |-> current_customers,
         cumulative_revenue |-> cumulative_revenue,
         cumulative_cost |-> cumulative_cost,
         cumulative_profit |-> cumulative_profit,
         raised |-> st.raised \/ Raised(customer_growth_factor),
         monthly_data |-> Append(st.monthly_data,
            [month |-> month,
             customers |-> Trunc(current_customers),
             new_customers |-> Trunc(new_customers),
             monthly_revenue |-> monthly_revenue,
             monthly_cost |-> monthly_cost,
             monthly_profit |-> monthly_profit,
             cumulative_revenue |-> cumulative_revenue,
             cumulative_cost |-> cumulative_cost,
             cumulative_profit |-> cumulative_profit,
             profit_margin |-> Margin(monthly_profit, monthly_revenue)])]

RECURSIVE ForecastLoop(_, _, _, _, _, _, _, _)
ForecastLoop(st, month, months, growth_rate, retention_rate, base_monthly_revenue, base_monthly_cost, base_customers) ==
    IF month > months \/ st.raised THEN st
    ELSE ForecastLoop(ForecastMonth(st, month, growth_rate, retention_rate,
                                    base_monthly_revenue, base_monthly_cost,
                                    base_customers),
                      month + 1, months, growth_rate, retention_rate,
                      base_monthly_revenue, base_monthly_cost, base_customers)

\* the period's profit taken from the last month's own profit instead of the
\* running total
PeriodResult_LastMonthProfit(st, base_customers, months) ==
    IF st.raised THEN [exc |-> "ZeroDivisionError"]
    ELSE [exc |-> "none",
          period_months |-> months,
          monthly_breakdown |-> st.monthly_data,
          period_totals |->
             [total_revenue |-> st.cumulative_revenue,
              total_cost |-> st.cumulative_cost,
              total_profit |->
                 st.monthly_data[Len(st.monthly_data)].monthly_profit,
              final_customers |-> Trunc(st.current_customers),
              customer_growth |->
                 IF base_customers > 0
                 THEN RMul(RDiv(RSub(st.current_customers, Q(base_customers)),
                                Q(base_customers)), Q(100))
                 ELSE Q(0),
              profit_margin |-> Margin(st.cumulative_profit,
                                       st.cumulative_revenue)]]

\* the result built after the month loop; st carries the loop variables
PeriodResult(st, base_customers, months) ==
    IF st.raised THEN [exc |-> "ZeroDivisionError"]
    ELSE [exc |-> "none",
          period_months |-> months,
          monthly_breakdown |-> st.monthly_data,
          period_totals |->
             [total_revenue |-> st.cumulative_revenue,
              total_cost |-> st.cumulative_cost,
              total_profit |-> st.cumulative_profit,
              final_customers |-> Trunc(st.current_customers),
              customer_growth |->
                 IF base_customers > 0
                 THEN RMul(RDiv(RSub(st.current_customers, Q(base_customers)),
                                Q(base_customers)), Q(100))
                 ELSE Q(0),
              profit_margin |-> Margin(st.cumulative_profit,
                                       st.cumulative_revenue)]]

\* the quarterly totals taken as monthly figures, without the division by 3
PeriodForecast_NoQuarter(base_results, money_totals, scenario_params, months) ==
    PeriodResult(ForecastLoop([current_customers |->
                                  Q(base_results.totals.total_customers),
                               cumulative_revenue |-> Q(0),
                               cumulative_cost |-> Q(0),
                               cumulative_profit |-> Q(0),
                               raised |-> FALSE,
                               monthly_data |-> <<>>],
                              1, months,
                              scenario_params["growth_rate"],
                              scenario_params["retention_rate"],
                              Q(money_totals.total_revenue),
                              Q(money_totals.total_cost),
                              base_results.totals.total_customers),
                 base_results.totals.total_customers, months)

\* _calculate_period_forecast after the baseline for the monthly figures
\* (money_totals) has been chosen; base_results supplies the customer count
PeriodForecast(base_results, money_totals, scenario_params, months) ==
    PeriodResult(ForecastLoop([current_customers |->
                                  Q(base_results.totals.total_customers),
                               cumulative_revenue |-> Q(0),
                               cumulative_cost |-> Q(0),
                               cumulative_profit |-> Q(0),
                               raised |-> FALSE,
                               monthly_data |-> <<>>],
                              1, months,
                              scenario_params["growth_rate"],
                              scenario_params["retention_rate"],
                              RDiv(Q(money_totals.total_revenue), Q(3)),
                              RDiv(Q(money_totals.total_cost), Q(3)),
                              base_results.totals.total_customers),
                 base_results.totals.total_customers, months)

\* Python truthiness of `quantity_adjustments`: None and {} are false
Truthy(scenario_params) ==
    /\ "quantity_adjustments" \in DOMAIN scenario_params
    /\ DOMAIN scenario_params["quantity_adjustments"] # {}

\* the first of 'VIP', 'Normal', 'Custom' that `in original_pricing` finds
FirstTier(pd) ==
    LET found == {i \in DOMAIN SUBSCRIPTION_TYPES :
                     IF pd.kind = "object" THEN SUBSCRIPTION_TYPES[i] \in DOMAIN pd.val
                     ELSE SUBSCRIPTION_TYPES[i] \in pd.val}
    IN  IF found = {} THEN "none"
        ELSE SUBSCRIPTION_TYPES[CHOOSE i \in found : \A j \in found : i <= j]

\* the swap of _apply_pricing_adjustments once its operands are known: the
\* result and the data manager's state at exit
Swap(pd, inp, last, base_results, swapped_inputs, swapped_session, sub_type, modified_pricing, adjusted_results) ==
    IF sub_type = "none"
    THEN [exc |-> "none", adjusted_results |-> base_results,
          pricing_data |-> pd, inputs |-> inp, input_data |-> swapped_session,
          last_calculation |-> last]
    ELSE IF pd.kind # "object"
    THEN [exc |-> "TypeError", pricing_data |-> pd,
          inputs |-> swapped_inputs, input_data |-> swapped_session,
          last_calculation |-> last]
    ELSE IF adjusted_results.exc # "none"
    THEN [exc |-> adjusted_results.exc, pricing_data |-> modified_pricing,
          inputs |-> swapped_inputs, input_data |-> swapped_session,
          last_calculation |-> last]
    ELSE [exc |-> "none", adjusted_results |-> adjusted_results,
          pricing_data |-> pd, inputs |-> inp, input_data |-> swapped_session,
          last_calculation |-> adjusted_results.totals]

\* the pricing with the adjustments in place of one tier, and its results
SwapTier(pd, inp, last, base_results, swapped_inputs, swapped_session, sub_type, modified_pricing) ==
    Swap(pd, inp, last, base_results, swapped_inputs, swapped_session, sub_type,
         modified_pricing,
         calculate_comprehensive_results(modified_pricing, swapped_inputs))

_apply_pricing_adjustments(pd, inp, st_inp, last, base_results, scenario_params) ==
    IF pd.kind = "string"
    THEN [exc |-> "AttributeError", pricing_data |-> pd, inputs |-> inp,
          input_data |-> st_inp, last_calculation |-> last]
    ELSE SwapTier(pd, inp, last, base_results,
                  IF Truthy(scenario_params)
                  THEN scenario_params["quantity_adjustments"] ELSE inp,
                  IF Truthy(scenario_params)
                  THEN scenario_params["quantity_adjustments"] ELSE st_inp,
                  FirstTier(pd),
                  Obj(DictSet(pd.val, FirstTier(pd),
                              Get(scenario_params, "pricing_adjustments", EmptyDict))))

HasAdjustments(scenario_params) ==
    \/ "pricing_adjustments" \in DOMAIN scenario_params
    \/ "quantity_adjustments" \in DOMAIN scenario_params

\* the forecast over the adjusted baseline adj, with the state adj left
AdjustedForecast(adj, base_results, scenario_params, months) ==
    [forecast |-> IF adj.exc # "none" THEN [exc |-> adj.exc]
                  ELSE PeriodForecast(base_results, adj.adjusted_results.totals,
                                      scenario_params, months),
     pricing_data |-> adj.pricing_data,
     inputs |-> adj.inputs,
     input_data |-> adj.input_data,
     last_calculation |-> adj.last_calculation]

\* _calculate_period_forecast: the forecast (or the exception) and the data
\* manager's state at exit
_calculate_period_forecast(pd, inp, st_inp, last, base_results, scenario_params, months) ==
    IF HasAdjustments(scenario_params)
    THEN AdjustedForecast(_apply_pricing_adjustments(pd, inp, st_inp, last,
                                                     base_results, scenario_params),
                          base_results, scenario_params, months)
    ELSE [forecast |-> PeriodForecast(base_results, base_results.totals,
                                      scenario_params, months),
          pricing_data |-> pd, inputs |-> inp, input_data |-> st_inp,
          last_calculation |-> last]

GROWTH_SCENARIOS ==
    [Conservative |-> [growth_rate |-> Rat(5, 100), retention_rate |-> Rat(85, 100)],
     Moderate |-> [growth_rate |-> Rat(15, 100), retention_rate |-> Rat(90, 100)],
     Aggressive |-> [growth_rate |-> Rat(30, 100), retention_rate |-> Rat(95, 100)],
     Optimistic |-> [growth_rate |-> Rat(50, 100), retention_rate |-> Rat(98, 100)]]

\* forecast_data[scenario_name][f"{period}_months"] = the period's forecast;
\* a forecast that raised ends the call with the state it left
AddForecast(st, scenario_name, period, call) ==
    [exc |-> call.forecast.exc,
     forecasts |-> IF call.forecast.exc # "none" THEN st.forecasts
                   ELSE (scenario_name :>
                            ((period :> call.forecast) @@ st.forecasts[scenario_name]))
                        @@ st.forecasts,
     pricing_data |-> call.pricing_data,
     inputs |-> call.inputs,
     input_data |-> call.input_data,
     last_calculation |-> call.last_calculation]

\* the period loop of generate_forecast for one scenario
RECURSIVE ForecastPeriods(_, _, _, _, _)
ForecastPeriods(st, scenario_name, periods, base_results, scenario_params) ==
    IF periods = <<>> \/ st.exc # "none" THEN st
    ELSE ForecastPeriods(
            AddForecast(st, scenario_name, Head(periods),
                        _calculate_period_forecast(
                           st.pricing_data, st.inputs, st.input_data,
                           st.last_calculation, base_results, scenario_params,
                           Head(periods))),
            scenario_name, Tail(periods), base_results, scenario_params)

\* the scenario loop of generate_forecast; names not in the registry are
\* skipped
RECURSIVE ForecastScenarios(_, _, _, _, _)
ForecastScenarios(st, scenarios, periods, base_results, registry) ==
    IF scenarios = <<>> \/ st.exc # "none" THEN st
    ELSE IF Head(scenarios) \notin DOMAIN registry
    THEN ForecastScenarios(st, Tail(scenarios), periods, base_results, registry)
    ELSE ForecastScenarios(
            ForecastPeriods(
               [st EXCEPT !.forecasts = (Head(scenarios) :> EmptyDict) @@ @],
               Head(scenarios), periods, base_results, registry[Head(scenarios)]),
            Tail(scenarios), periods, base_results, registry)

\* generate_forecast after the baseline has been computed
GenerateOver(base_results, pd, inp, st_inp, last, registry, periods, scenarios) ==
    IF base_results.exc # "none"
    THEN [exc |-> base_results.exc, forecasts |-> EmptyDict, pricing_data |-> pd,
          inputs |-> inp, input_data |-> st_inp, last_calculation |-> last]
    ELSE ForecastScenarios(
            [exc |-> "none", forecasts |-> EmptyDict, pricing_data |-> pd,
             inputs |-> inp, input_data |-> st_inp,
             last_calculation |-> base_results.totals],
            scenarios, periods, base_results, registry)

\* generate_forecast: the forecasts (or the exception) and the data manager's
\* state at exit
generate_forecast(pd, inp, st_inp, last, registry, periods, scenarios) ==
    GenerateOver(calculate_comprehensive_results(pd, inp), pd, inp, st_inp, last,
                 registry, periods, scenarios)

\* float('inf')
Inf == [kind |-> "inf"]

Num(q) == [kind |-> "number", val |-> q]

\* one pass of the scenario loop of calculate_break_even_analysis
BreakEvenRow(totals, scenario_params, fixed_costs) ==
    LET avg_profit_per_customer == totals.profit_per_customer
        break_even_customers ==
            IF RGt(avg_profit_per_customer, Q(0))
            THEN Num(RDiv(Q(fixed_costs), avg_profit_per_customer))
            ELSE Inf
        current_customers == totals.total_customers
        monthly_growth_rate == RDiv(scenario_params["growth_rate"], Q(12))
        exceeds == \/ break_even_customers.kind = "inf"
                   \/ RGt(break_even_customers.val, Q(current_customers))
        months_to_break_even ==
            IF RGt(monthly_growth_rate, Q(0)) /\ exceeds
            THEN (IF current_customers = 0 THEN [kind |-> "ZeroDivisionError"]
                  ELSE IF break_even_customers.kind = "inf" THEN Inf
                  ELSE [kind |-> "log",
                        of |-> RDiv(break_even_customers.val, Q(current_customers)),
                        base |-> RAdd(Q(1), monthly_growth_rate)])
            ELSE (IF ~ exceeds THEN Num(Q(0)) ELSE Inf)
    IN  [break_even_customers |->
            IF break_even_customers.kind # "inf"
            THEN [kind |-> "number", val |-> Trunc(break_even_customers.val)]
            ELSE [kind |-> "N/A"],
         current_customers |-> current_customers,
         months_to_break_even |->
            IF months_to_break_even.kind # "inf" THEN months_to_break_even
            ELSE [kind |-> "Never"],
         monthly_growth_rate |-> RMul(monthly_growth_rate, Q(100)),
         avg_profit_per_customer |-> avg_profit_per_customer]

\* the rows of the analysis; a row that raised ends the call
BreakEvenRows(rows) ==
    IF \E name \in DOMAIN rows :
          rows[name].months_to_break_even.kind = "ZeroDivisionError"
    THEN [exc |-> "ZeroDivisionError"]
    ELSE [exc |-> "none", val |-> rows]

\* the scenario loop over the base results
BreakEvenOver(base_results, scenarios, fixed_costs) ==
    IF base_results.exc # "none" THEN [exc |-> base_results.exc]
    ELSE BreakEvenRows([name \in DOMAIN scenarios |->
                          BreakEvenRow(base_results.totals, scenarios[name],
                                       fixed_costs)])

calculate_break_even_analysis(pd, inp, scenarios, fixed_costs) ==
    BreakEvenOver(calculate_comprehensive_results(pd, inp), scenarios, fixed_costs)

(***************************************************************************)
(* DataManager.import_pricing_config                                       *)
(***************************************************************************)
\* json.loads: the text either fails to parse or yields its value
json_loads(config_json) ==
    IF config_json.kind = "malformed" THEN [exc |-> "JSONDecodeError"]
    ELSE [exc |-> "none", val |-> config_json]

\* Python's `sub_type in data`
Contains(data, sub_type) ==
    IF data.kind = "object" THEN sub_type \in DOMAIN data.val
    ELSE sub_type \in data.val

\* whether `in` is defined on the value (dict, list, str)
Searchable(data) == data.kind \in {"object", "list", "string"}

\* the required list without its last tier
required_types_NoCustom == <<"VIP", "Normal">>

required_types == <<"VIP", "Normal", "Custom">>

_validate_pricing_structure(data) ==
    IF ~ Searchable(data) THEN [exc |-> "TypeError"]
    ELSE [exc |-> "none",
          val |-> \A i \in DOMAIN required_types : Contains(data, required_types[i])]

\* the return value (or escaping exception) and the catalogue after the call
import_pricing_config(pd, config_json) ==
    LET parsed == json_loads(config_json)
        valid == _validate_pricing_structure(parsed.val)
    IN  IF parsed.exc = "JSONDecodeError"
        THEN [exc |-> "none", ret |-> FALSE, pricing_data |-> pd]
        ELSE IF valid.exc # "none"
        THEN [exc |-> valid.exc, pricing_data |-> pd]
        ELSE IF valid.val
        THEN [exc |-> "none", ret |-> TRUE, pricing_data |-> parsed.val]
        ELSE [exc |-> "none", ret |-> FALSE, pricing_data |-> pd]

(***************************************************************************)
(* Inputs of the operations.                                               *)
(***************************************************************************)
\* every priced component of a tier set to zero (a 0 % price change)
ZeroOf(tier_pricing) ==
    [k \in DOMAIN tier_pricing |->
        IF k = "digitalProfit" THEN 0 ELSE PE(0, 0, 0)]

PricingUpdates(sub_type) == {ZeroOf(DEFAULT_PRICING[sub_type])}

\* every quantity set to zero (renewal counts kept), and one VIP customer
InputUpdates ==
    {[k \in DOMAIN DEFAULT_INPUTS |->
         IF k \in ComboKeys THEN CI(0, DEFAULT_INPUTS[k].renewals)
         ELSE IF k \in {"challenge_fee", "adventure_fee", "competition_fee"}
              THEN DEFAULT_INPUTS[k] ELSE 0],
     [VIP_1_month |-> CI(1, 0)]}

\* an imported catalogue with other prices than the defaults, one of them
\* carrying a stale stored profit; its Custom 3-month package earns what the
\* Normal one does
ImportedPricing ==
    [DEFAULT_PRICING EXCEPT !["VIP"]["mealsPerMonth"] = PE(11, 16, 4),
                            !["Custom"] = [digitalProfit |-> 5] @@ @,
                            !["Custom"]["meals3Months"] = PE(30, 49, 19),
                            !["Custom"]["cbyiOneMonth"] = PE(17, 18, 1)]

Without(d, k) == [x \in DOMAIN d \ {k} |-> d[x]]

\* the texts handed to import_pricing_config, by what json.loads makes of them
Documents ==
    {[kind |-> "malformed"],
     [kind |-> "number"],
     [kind |-> "null"],
     [kind |-> "list", val |-> {"VIP", "Normal", "Custom"}],
     [kind |-> "list", val |-> {"VIP", "Normal"}],
     [kind |-> "string", val |-> {"VIP", "Normal", "Custom"}],
     Obj(ImportedPricing),
     Obj([t \in Tiers |-> EmptyDict]),
     Obj(EmptyDict)}
        \cup {Obj(Without(ImportedPricing, t)) : t \in Tiers}

Flat == [growth_rate |-> Q(0), retention_rate |-> Q(1)]

\* the quantities of a parameter scenario
AdjustedInputs == [DEFAULT_INPUTS EXCEPT !["VIP_1_month"] = CI(3, 1)]

\* the scenario parameters handed to _calculate_period_forecast
ScenarioChoices ==
    {Flat,
     [growth_rate |-> Rat(6, 5), retention_rate |-> Q(1)],
     [growth_rate |-> Q(0), retention_rate |-> Rat(1, 2)],
     \* a parameter scenario built on the VIP tier
     [growth_rate |-> Q(0), retention_rate |-> Q(1),
      pricing_adjustments |->
         [DEFAULT_PRICING["VIP"] EXCEPT !["bracelet"] = PE(3, 10, 7)],
      quantity_adjustments |-> AdjustedInputs],
     \* a parameter scenario built on the Custom tier
     [growth_rate |-> Q(0), retention_rate |-> Q(1),
      pricing_adjustments |-> DEFAULT_PRICING["Custom"],
      quantity_adjustments |-> AdjustedInputs],
     \* a scenario that overrides the quantities only
     [growth_rate |-> Q(0), retention_rate |-> Q(1),
      quantity_adjustments |-> AdjustedInputs]}

FixedCostChoices == {10000 * k : k \in 0..MaxFixedCosts}

\* the scenario names requested of generate_forecast
ScenarioLists ==
    {<<>>, <<"Unknown">>, <<"Aggressive">>, <<"Unknown", "Aggressive">>,
     <<"Aggressive", "Nobody", "Aggressive">>}

\* the periods requested of generate_forecast
PeriodLists == {<<>>, <<1>>, <<1, MaxMonths>>}

\* a results dictionary holding the totals of a quarter with the given
\* revenue, cost and customer count
Baseline(total_revenue, total_cost, total_customers) ==
    [exc |-> "none",
     totals |-> [total_cost |-> total_cost,
                 total_revenue |-> total_revenue,
                 total_profit |-> total_revenue - total_cost,
                 profit_margin |-> Percent(total_revenue - total_cost, total_revenue),
                 total_customers |-> total_customers,
                 revenue_per_customer |-> PerCustomer(total_revenue, total_customers),
                 cost_per_customer |-> PerCustomer(total_cost, total_customers),
                 profit_per_customer |->
                    PerCustomer(total_revenue - total_cost, total_customers)]]

\* the baselines handed to _calculate_period_forecast directly
BaselineChoices == {Baseline(300000, 200000, c) : c \in {1, 250}}

\* the scenarios without overrides
PlainScenarios == {sp \in ScenarioChoices : ~ HasAdjustments(sp)}

\* the growth rates handed to calculate_growth_impact
GrowthRates == {Q(0), Rat(1, 10), Rat(-1, 2)}

\* a scenario of calculate_scenario_analysis: its name and its multipliers
Multipliers(name, customer_multiplier, renewal_multiplier) ==
    [name |-> name,
     data |-> [customer_multiplier |-> customer_multiplier,
               renewal_multiplier |-> renewal_multiplier]]

\* the scenario dictionaries handed to calculate_scenario_analysis, in
\* insertion order
MultiplierScenarios ==
    {<<>>,
     <<Multipliers("Same", Q(1), Q(1))>>,
     <<Multipliers("Double", Q(2), Q(1))>>,
     <<Multipliers("Double", Q(2), Q(1)), Multipliers("Same", Q(1), Q(1))>>,
     <<Multipliers("Half", Rat(1, 2), Rat(1, 2)),
       [name |-> "Plain", data |-> EmptyDict]>>}

(***************************************************************************)
(* State.                                                                  *)
(***************************************************************************)
VARIABLES
    pricing_data,          \* DataManager.pricing_data
    inputs,                \* DataManager.inputs
    session_pricing_data,  \* st.session_state.pricing_data
    session_input_data,    \* st.session_state.input_data
    last_calculation,      \* st.session_state.last_calculation
    default_pricing,       \* AppConfig.DEFAULT_PRICING (a mutable class attribute)
    aliased,               \* tiers whose dict in pricing_data is the very object
                           \* held by AppConfig.DEFAULT_PRICING (shallow .copy())
    result                 \* the last call: operation, arguments, outcome

vars == <<pricing_data, inputs, session_pricing_data, session_input_data,
          last_calculation, default_pricing, aliased, result>>

\* what calculate_comprehensive_results leaves in st.session_state
Stored(results, last) == IF results.exc = "none" THEN results.totals ELSE last

\* DataManager.__init__ with an empty session
Init ==
    /\ pricing_data = Obj(DEFAULT_PRICING)
    /\ inputs = DEFAULT_INPUTS
    /\ session_pricing_data = Obj(DEFAULT_PRICING)
    /\ session_input_data = DEFAULT_INPUTS
    /\ last_calculation = [unset |-> TRUE]
    /\ default_pricing = DEFAULT_PRICING
    /\ aliased = Tiers
    /\ result = [op |-> "__init__"]

(***************************************************************************)
(* Operations.                                                             *)
(***************************************************************************)
update_pricing_data(subscription_type, pricing_updates) ==
    /\ IF ~ Contains(pricing_data, subscription_type)
       THEN /\ UNCHANGED <<pricing_data, session_pricing_data, default_pricing>>
            /\ result' = [op |-> "update_pricing_data", exc |-> "none"]
       ELSE IF pricing_data.kind # "object"
       THEN /\ UNCHANGED <<pricing_data, session_pricing_data, default_pricing>>
            /\ result' = [op |-> "update_pricing_data", exc |-> "TypeError"]
       ELSE LET updated == DictUpdate(pricing_data.val[subscription_type],
                                      pricing_updates)
            IN  /\ pricing_data' = Obj([pricing_data.val
                                          EXCEPT ![subscription_type] = updated])
                /\ session_pricing_data' = pricing_data'
                /\ default_pricing' =
                      IF subscription_type \in aliased
                      THEN [default_pricing EXCEPT ![subscription_type] = updated]
                      ELSE default_pricing
                /\ result' = [op |-> "update_pricing_data", exc |-> "none"]
    /\ UNCHANGED <<inputs, session_input_data, last_calculation, aliased>>

update_input_data(updates) ==
    /\ inputs' = DictUpdate(inputs, updates)
    /\ session_input_data' = inputs'
    /\ result' = [op |-> "update_input_data", exc |-> "none"]
    /\ UNCHANGED <<pricing_data, session_pricing_data, last_calculation,
                   default_pricing, aliased>>

reset_pricing_to_defaults ==
    /\ pricing_data' = Obj(default_pricing)
    /\ session_pricing_data' = pricing_data'
    /\ aliased' = Tiers
    /\ result' = [op |-> "reset_pricing_to_defaults", exc |-> "none"]
    /\ UNCHANGED <<inputs, session_input_data, last_calculation, default_pricing>>

ImportPricingConfig(config_json) ==
    LET out == import_pricing_config(pricing_data, config_json)
        accepted == out.exc = "none" /\ out.ret
    IN  /\ pricing_data' = out.pricing_data
        /\ session_pricing_data' =
              IF accepted THEN out.pricing_data ELSE session_pricing_data
        /\ aliased' = IF accepted THEN {} ELSE aliased
        /\ result' = [op |-> "import_pricing_config", config_json |-> config_json,
                      exc |-> out.exc,
                      ret |-> IF out.exc = "none" THEN out.ret ELSE FALSE]
        /\ UNCHANGED <<inputs, session_input_data, last_calculation,
                       default_pricing>>

CalculatePackageCost(subscription_type, duration) ==
    /\ result' = [op |-> "calculate_package_cost",
                  subscription_type |-> subscription_type, duration |-> duration,
                  out |-> calculate_package_cost(pricing_data, subscription_type,
                                                 duration)]
    /\ UNCHANGED <<pricing_data, inputs, session_pricing_data, session_input_data,
                   last_calculation, default_pricing, aliased>>

CalculateComprehensiveResults ==
    /\ result' = [op |-> "calculate_comprehensive_results",
                  out |-> calculate_comprehensive_results(pricing_data, inputs)]
    /\ last_calculation' = Stored(result'.out, last_calculation)
    /\ UNCHANGED <<pricing_data, inputs, session_pricing_data, session_input_data,
                   default_pricing, aliased>>

\* a caller computes the baseline and projects it (generate_forecast,
\* compare_scenarios and generate_sensitivity_analysis all do)
CalculatePeriodForecast(scenario_params, months) ==
    \E base_results \in {calculate_comprehensive_results(pricing_data, inputs)} :
       IF base_results.exc # "none"
       THEN /\ result' = [op |-> "_calculate_period_forecast",
                          scenario_params |-> scenario_params, months |-> months,
                          base |-> base_results, out |-> [exc |-> base_results.exc]]
            /\ UNCHANGED <<pricing_data, inputs, session_pricing_data,
                           session_input_data, last_calculation, default_pricing,
                           aliased>>
       ELSE \E call \in {_calculate_period_forecast(
                             pricing_data, inputs, session_input_data,
                             base_results.totals, base_results,
                             scenario_params, months)} :
               /\ result' = [op |-> "_calculate_period_forecast",
                             scenario_params |-> scenario_params,
                             months |-> months,
                             base |-> base_results, out |-> call.forecast]
               /\ pricing_data' = call.pricing_data
               /\ inputs' = call.inputs
               /\ session_input_data' = call.input_data
               /\ last_calculation' = call.last_calculation
               /\ aliased' = IF call.pricing_data = pricing_data THEN aliased
                             ELSE aliased \ {FirstTier(pricing_data)}
               /\ UNCHANGED <<session_pricing_data, default_pricing>>

CalculateBreakEvenAnalysis(fixed_costs) ==
    \E base_results \in {calculate_comprehensive_results(pricing_data, inputs)} :
       /\ result' = [op |-> "calculate_break_even_analysis",
                     fixed_costs |-> fixed_costs,
                     base |-> base_results,
                     out |-> BreakEvenOver(base_results, GROWTH_SCENARIOS,
                                           fixed_costs)]
       /\ last_calculation' = Stored(base_results, last_calculation)
       /\ UNCHANGED <<pricing_data, inputs, session_pricing_data,
                      session_input_data, default_pricing, aliased>>

GenerateForecast(periods, scenarios) ==
    \E out \in {generate_forecast(pricing_data, inputs, session_input_data,
                                  last_calculation, GROWTH_SCENARIOS, periods,
                                  scenarios)} :
       /\ result' = [op |-> "generate_forecast", periods |-> periods,
                     scenarios |-> scenarios,
                     out |-> [exc |-> out.exc, forecasts |-> out.forecasts]]
       /\ pricing_data' = out.pricing_data
       /\ inputs' = out.inputs
       /\ session_input_data' = out.input_data
       /\ last_calculation' = out.last_calculation
       /\ aliased' = IF out.pricing_data = pricing_data THEN aliased
                     ELSE aliased \ {FirstTier(pricing_data)}
       /\ UNCHANGED <<session_pricing_data, default_pricing>>

\* _calculate_period_forecast on a given baseline; without overrides the call
\* reads and writes nothing of the data manager
ProjectPeriod(base_results, scenario_params, months) ==
    /\ result' = [op |-> "_calculate_period_forecast",
                  scenario_params |-> scenario_params, months |-> months,
                  base |-> base_results,
                  out |-> PeriodForecast(base_results, base_results.totals,
                                         scenario_params, months)]
    /\ UNCHANGED <<pricing_data, inputs, session_pricing_data, session_input_data,
                   last_calculation, default_pricing, aliased>>

GetSeasonalityFactor(month) ==
    /\ result' = [op |-> "_get_seasonality_factor", month |-> month,
                  out |-> _get_seasonality_factor(month)]
    /\ UNCHANGED <<pricing_data, inputs, session_pricing_data, session_input_data,
                   last_calculation, default_pricing, aliased>>

CalculateGrowthImpact(growth_rate, periods) ==
    \E current_results \in {calculate_comprehensive_results(pricing_data, inputs)} :
       /\ result' = [op |-> "calculate_growth_impact",
                     growth_rate |-> growth_rate, periods |-> periods,
                     base |-> current_results,
                     out |-> GrowthImpactOver(current_results, growth_rate,
                                              periods)]
       /\ last_calculation' = Stored(current_results, last_calculation)
       /\ UNCHANGED <<pricing_data, inputs, session_pricing_data,
                      session_input_data, default_pricing, aliased>>

\* the session's input_data holds the same entry dictionaries as the data
\* manager's inputs (update_input_data stores the inputs themselves), so it
\* shows the multiplied counts as well
CalculateScenarioAnalysis(scenarios) ==
    /\ \A k \in ComboKeys \cap DOMAIN inputs : inputs[k].customers <= MaxCustomers
    /\ \E out \in {calculate_scenario_analysis(pricing_data, inputs,
                                               last_calculation, scenarios)} :
          /\ result' = [op |-> "calculate_scenario_analysis",
                        scenarios |-> scenarios,
                        out |-> [exc |-> out.exc, val |-> out.scenario_results]]
          /\ inputs' = out.inputs
          /\ session_input_data' = IF session_input_data = inputs THEN out.inputs
                                   ELSE session_input_data
          /\ last_calculation' = out.last_calculation
    /\ UNCHANGED <<pricing_data, session_pricing_data, default_pricing, aliased>>

\* the data manager and the calculator
Next ==
    \/ \E u \in PricingUpdates("VIP") : update_pricing_data("VIP", u)
    \/ \E u \in InputUpdates : update_input_data(u)
    \/ reset_pricing_to_defaults
    \/ \E doc \in Documents : ImportPricingConfig(doc)
    \/ \E t \in Tiers : \E d \in {1, 3} : CalculatePackageCost(t, d)
    \/ CalculateComprehensiveResults

Spec == Init /\ [][Next]_vars

\* the forecaster over the catalogue and the inputs
NextForecast ==
    \/ \E u \in PricingUpdates("VIP") : update_pricing_data("VIP", u)
    \/ \E u \in InputUpdates : update_input_data(u)
    \/ CalculateComprehensiveResults
    \/ \E sp \in ScenarioChoices : \E m \in 1..MaxMonths :
          CalculatePeriodForecast(sp, m)
    \/ \E fc \in FixedCostChoices : CalculateBreakEvenAnalysis(fc)

SpecForecast == Init /\ [][NextForecast]_vars

\* the forecaster's entry point and its projection of given baselines
NextProjection ==
    \/ \E u \in InputUpdates : update_input_data(u)
    \/ \E p \in PeriodLists : \E names \in ScenarioLists : GenerateForecast(p, names)
    \/ \E b \in BaselineChoices : \E sp \in PlainScenarios : \E m \in 1..MaxMonths :
          ProjectPeriod(b, sp, m)
    \/ \E month \in 1..MaxSeasonMonth : GetSeasonalityFactor(month)

SpecProjection == Init /\ [][NextProjection]_vars

\* the calculator's what-if analyses
NextScenario ==
    \/ \E u \in PricingUpdates("VIP") : update_pricing_data("VIP", u)
    \/ \E u \in InputUpdates : update_input_data(u)
    \/ \E g \in GrowthRates : \E p \in 0..MaxPeriods : CalculateGrowthImpact(g, p)
    \/ \E scenarios \in MultiplierScenarios : CalculateScenarioAnalysis(scenarios)

SpecScenario == Init /\ [][NextScenario]_vars

(***************************************************************************)
(* Properties.                                                             *)
(***************************************************************************)
IsForecast == result.op = "_calculate_period_forecast"

IsComprehensive == result.op = "calculate_comprehensive_results"

IsBreakEven == result.op = "calculate_break_even_analysis"

IsImport == result.op = "import_pricing_config"

IsPackageCost == result.op = "calculate_package_cost"

\* the sum of a field over the first M rows of a monthly breakdown
RECURSIVE RowSum(_, _, _)
RowSum(rows, M, field) ==
    IF M = 0 THEN Q(0) ELSE RAdd(RowSum(rows, M - 1, field), rows[M][field])

\* the sum of a field over all entries of a result dictionary
RECURSIVE SumOver(_, _, _)
SumOver(d, keys, field) ==
    IF keys = {} THEN 0
    ELSE LET k == CHOOSE x \in keys : TRUE
         IN  d[k][field] + SumOver(d, keys \ {k}, field)

\* C1: in every forecast over a baseline with customers > 0, the
\* cumulative_revenue of row M is the sum of the monthly_revenue values of rows
\* 1..M, and cumulative_cost is the sum of the monthly_cost values.
C1_CumulativeIsSumOfRows ==
    (IsForecast /\ result.out.exc = "none"
        /\ result.base.totals.total_customers > 0)
    => \A M \in DOMAIN result.out.monthly_breakdown :
          LET rows == result.out.monthly_breakdown
          IN  /\ rows[M].cumulative_revenue = RowSum(rows, M, "monthly_revenue")
              /\ rows[M].cumulative_cost = RowSum(rows, M, "monthly_cost")

\* C2: a forecast whose scenario carries overrides leaves
\* data_manager.pricing_data and data_manager.inputs as they were before the
\* call, on every exit path, the raising one included.
C2_SwapRestoredOnEveryExit ==
    [][(result'.op = "_calculate_period_forecast"
          /\ HasAdjustments(result'.scenario_params))
       => (pricing_data' = pricing_data /\ inputs' = inputs)]_vars

\* C3: a forecast over a baseline with total_customers = 0 returns a result
\* with customer_growth = 0 and does not raise.
C3_ZeroBaselineReturns ==
    (IsForecast /\ result.base.exc = "none"
        /\ result.base.totals.total_customers = 0)
    => (/\ result.out.exc = "none"
        /\ result.out.period_totals.customer_growth = Q(0))

\* C4: with a baseline profit_per_customer of 0 the break-even analysis
\* returns, and break_even_customers is 'N/A' for every scenario.
C4_BreakEvenUndefinedIsSentinel ==
    (IsBreakEven /\ result.base.exc = "none"
        /\ result.base.totals.profit_per_customer = Q(0))
    => (/\ result.out.exc = "none"
        /\ \A name \in DOMAIN result.out.val :
              result.out.val[name].break_even_customers.kind = "N/A")

\* a JSON object that lacks at least one of the required tier keys
LacksTier(doc) == doc.kind = "object" /\ ~ (Tiers \subseteq DOMAIN doc.val)

\* C5: importing a JSON object that lacks a required tier key returns False
\* and leaves pricing_data and the session's pricing_data unchanged.
C5_MissingTierRejected ==
    [][(result'.op = "import_pricing_config" /\ LacksTier(result'.config_json))
       => (/\ result'.exc = "none"
           /\ result'.ret = FALSE
           /\ pricing_data' = pricing_data
           /\ session_pricing_data' = session_pricing_data)]_vars

\* C5 witness: a document without the Custom key has been rejected
C5_Witness ==
    /\ IsImport
    /\ result.config_json.kind = "object"
    /\ DOMAIN result.config_json.val = {"VIP", "Normal"}
    /\ result.exc = "none"
    /\ result.ret = FALSE

\* C6: for every text, import_pricing_config does not raise; it either accepts
\* a well-formed object that has all three tier keys or returns False with
\* pricing_data unchanged.
C6_ImportNeverRaises ==
    [][result'.op = "import_pricing_config"
       => (/\ result'.exc = "none"
           /\ \/ /\ result'.ret
                 /\ result'.config_json.kind = "object"
                 /\ Tiers \subseteq DOMAIN result'.config_json.val
              \/ /\ ~ result'.ret
                 /\ pricing_data' = pricing_data)]_vars

C8_PresentIffCustomers ==
    (IsComprehensive /\ result.out.exc = "none")
    => \A i \in DOMAIN get_subscription_combinations :
          LET c == get_subscription_combinations[i]
          IN  (c.display_name \in DOMAIN result.out.subscriptions)
                 <=> (Get(Get(inputs, c.key, EmptyDict), "customers", 0) > 0)

\* C8 witness: a combination with no customers but renewals is absent while
\* another one is present
C8_Witness ==
    /\ IsComprehensive
    /\ result.out.exc = "none"
    /\ inputs["Normal_3_months"].customers = 0
    /\ inputs["Normal_3_months"].renewals > 0
    /\ "Normal - 3 Months" \notin DOMAIN result.out.subscriptions
    /\ "VIP - 1 Month" \in DOMAIN result.out.subscriptions

\* C9: calculate_package_cost returns profit = revenue - cost and changes no
\* pricing or input state.
C9_ProfitIsRevenueMinusCost ==
    [][result'.op = "calculate_package_cost"
       => (/\ result'.out.exc = "none"
              => result'.out.profit = result'.out.revenue - result'.out.cost
           /\ UNCHANGED <<pricing_data, inputs, session_pricing_data,
                          session_input_data, default_pricing>>)]_vars

\* C9 witness: a package priced from an entry whose stored profit is stale
C9_Witness ==
    /\ IsPackageCost
    /\ result.out.exc = "none"
    /\ result.subscription_type = "VIP"
    /\ result.duration = 1
    /\ pricing_data.kind = "object"
    /\ "VIP" \in DOMAIN pricing_data.val
    /\ "mealsPerMonth" \in DOMAIN pricing_data.val["VIP"]
    /\ pricing_data.val["VIP"]["mealsPerMonth"].profit
          # pricing_data.val["VIP"]["mealsPerMonth"].selling
            - pricing_data.val["VIP"]["mealsPerMonth"].cost
    /\ result.out.profit = result.out.revenue - result.out.cost

\* C10: profit_margin is exactly 0 (and no division by zero happens) whenever
\* the revenue it is computed from is 0: in the totals of a comprehensive
\* result, in every monthly row and in the period totals of a forecast.
C10_ZeroRevenueZeroMargin ==
    /\ (IsComprehensive /\ result.out.exc = "none"
           /\ result.out.totals.total_revenue = 0)
       => result.out.totals.profit_margin = Q(0)
    /\ (IsForecast /\ result.base.exc = "none"
           /\ result.base.totals.total_revenue = 0)
       => result.base.totals.profit_margin = Q(0)
    /\ (IsForecast /\ result.out.exc = "none")
       => /\ \A M \in DOMAIN result.out.monthly_breakdown :
                result.out.monthly_breakdown[M].monthly_revenue = Q(0)
                   => result.out.monthly_breakdown[M].profit_margin = Q(0)
          /\ result.out.period_totals.total_revenue = Q(0)
                => result.out.period_totals.profit_margin = Q(0)

\* C10 witness: a forecast over a baseline with customers and no revenue
C10_Witness ==
    /\ IsForecast
    /\ result.out.exc = "none"
    /\ result.base.totals.total_revenue = 0
    /\ result.base.totals.total_customers > 0
    /\ result.out.monthly_breakdown[1].monthly_revenue = Q(0)
    /\ result.out.period_totals.total_revenue = Q(0)
    /\ result.out.period_totals.profit_margin = Q(0)

\* the margin of an entry computed from its recorded totals
EntryMargin(e) ==
    IF e.total_revenue = 0 THEN Q(0)
    ELSE RMul(RDiv(Q(e.total_revenue - e.total_cost), Q(e.total_revenue)), Q(100))

\* C11: every subscription entry's profit_margin is (total_revenue -
\* total_cost) / total_revenue x 100 over the total_revenue that includes the
\* renewal revenue, and 0 only when that total_revenue is 0.
C11_MarginCountsRenewals ==
    (IsComprehensive /\ result.out.exc = "none")
    => \A n \in DOMAIN result.out.subscriptions :
          result.out.subscriptions[n].profit_margin
             = EntryMargin(result.out.subscriptions[n])

\* the seasonality multipliers by calendar month, in hundredths
SeasonalityPercent == <<90, 95, 110, 100, 100, 105, 95, 90, 110, 105, 115, 120>>

\* the calendar month of a forecast month
CalendarMonth(month) == ((month - 1) % 12) + 1

IsSeasonality == result.op = "_get_seasonality_factor"

\* a forecast of a scenario without overrides, growth 0 and retention 1, over
\* a baseline with customers
IsFlatForecast ==
    /\ IsForecast
    /\ result.base.exc = "none"
    /\ result.base.totals.total_customers > 0
    /\ ~ HasAdjustments(result.scenario_params)
    /\ result.scenario_params["growth_rate"] = Q(0)
    /\ result.scenario_params["retention_rate"] = Q(1)

\* C12: with growth_rate 0, retention_rate 1 and a baseline with customers,
\* every row keeps the baseline customer count (growth factor 1) and its
\* monthly_revenue is the baseline monthly revenue times the month's
\* seasonality factor.
C12_FlatGrowthKeepsBaseline ==
    IsFlatForecast
    => /\ result.out.exc = "none"
       /\ Len(result.out.monthly_breakdown) = result.months
       /\ \A m \in DOMAIN result.out.monthly_breakdown :
             LET row == result.out.monthly_breakdown[m]
                 totals == result.base.totals
             IN  /\ row.customers = totals.total_customers
                 /\ row.new_customers = 0
                 /\ row.monthly_revenue
                       = Rat(totals.total_revenue * SeasonalityPercent[CalendarMonth(m)],
                             300)
                 /\ row.monthly_cost
                       = Rat(totals.total_cost * SeasonalityPercent[CalendarMonth(m)],
                             300)

\* C12 witness: a flat forecast of more than one month whose rows differ by
\* seasonality only
C12_Witness ==
    /\ IsFlatForecast
    /\ result.out.exc = "none"
    /\ Len(result.out.monthly_breakdown) >= 2
    /\ result.out.monthly_breakdown[1].monthly_revenue
          # result.out.monthly_breakdown[2].monthly_revenue
    /\ result.out.monthly_breakdown[2].customers
          = result.base.totals.total_customers

\* C13: the seasonality factor of month m is the table entry of calendar month
\* ((m - 1) mod 12) + 1, never the 1.0 fallback, so the factor of month m + 12
\* is the factor of month m.
C13_SeasonalityPeriodTwelve ==
    [][result'.op = "_get_seasonality_factor"
       => /\ result'.out
                = Rat(SeasonalityPercent[CalendarMonth(result'.month)], 100)
          /\ (IsSeasonality /\ result'.month = result.month + 12)
                => result'.out = result.out]_vars

\* C13 witness: month 13 has been given month 1's factor 0.90
C13_Witness ==
    /\ IsSeasonality
    /\ result.month = 13
    /\ result.out = Rat(9, 10)

\* a one-month forecast with growth 0 and retention 1 over a baseline of
\* revenue 300000 and cost 200000
IsConcreteCase ==
    /\ IsFlatForecast
    /\ result.months = 1
    /\ result.base.totals.total_revenue = 300000
    /\ result.base.totals.total_cost = 200000

IsGenerate == result.op = "generate_forecast"

\* the elements of a list
Elements(list) == {list[i] : i \in DOMAIN list}

\* C15: generate_forecast does not fail; the forecasts mapping has exactly the
\* requested names found in the scenario registry as keys, and each of them
\* has one entry per requested period.
C15_UnknownNamesSkipped ==
    IsGenerate
    => /\ result.out.exc = "none"
       /\ DOMAIN result.out.forecasts
             = Elements(result.scenarios) \cap DOMAIN GROWTH_SCENARIOS
       /\ \A name \in DOMAIN result.out.forecasts :
             DOMAIN result.out.forecasts[name] = Elements(result.periods)

\* the catalogue with the scenario's pricing overrides in place of the tier
\* they replace; a scenario without pricing overrides leaves it as it is
OverriddenPricing(pd, scenario_params) ==
    IF "pricing_adjustments" \in DOMAIN scenario_params /\ pd.kind = "object"
    THEN Obj(DictSet(pd.val, FirstTier(pd), scenario_params["pricing_adjustments"]))
    ELSE pd

\* the inputs with the scenario's quantity overrides
OverriddenInputs(inp, scenario_params) ==
    IF "quantity_adjustments" \in DOMAIN scenario_params
    THEN scenario_params["quantity_adjustments"] ELSE inp

\* the forecast derived from a recomputed baseline; a baseline that cannot be
\* computed ends the forecast with its exception
DerivedFrom(recomputed, base_results, scenario_params, months) ==
    IF recomputed.exc # "none" THEN [exc |-> recomputed.exc]
    ELSE PeriodForecast(base_results, recomputed.totals, scenario_params, months)

\* C16: a forecast of a scenario with pricing or quantity overrides derives
\* its monthly baseline revenue and cost from the baseline recomputed with the
\* overridden catalogue and inputs.
C16_OverridesRecomputeBaseline ==
    [][(/\ result'.op = "_calculate_period_forecast"
        /\ HasAdjustments(result'.scenario_params)
        /\ result'.base.exc = "none"
        /\ result'.base.totals.total_customers > 0)
       => result'.out
             = DerivedFrom(
                  calculate_comprehensive_results(
                     OverriddenPricing(pricing_data, result'.scenario_params),
                     OverriddenInputs(inputs, result'.scenario_params)),
                  result'.base, result'.scenario_params, result'.months)]_vars

\* the three variants of months_to_break_even for one scenario: 0 at or above
\* the target, 'Never' for an undefined target or a target out of reach
\* without growth, a finite positive number otherwise
BreakEvenVariant(row, totals, scenario_params, fixed_costs) ==
    LET defined == RGt(totals.profit_per_customer, Q(0))
        reached == defined /\ RGe(RMul(Q(totals.total_customers),
                                       totals.profit_per_customer),
                                  Q(fixed_costs))
    IN  IF reached THEN row.months_to_break_even = Num(Q(0))
        ELSE IF ~ defined \/ ~ RGt(scenario_params["growth_rate"], Q(0))
        THEN row.months_to_break_even.kind = "Never"
        ELSE /\ row.months_to_break_even.kind = "log"
             /\ RGt(row.months_to_break_even.of, Q(1))
             /\ RGt(row.months_to_break_even.base, Q(1))

\* C17: for every scenario months_to_break_even is 0 when the current
\* customers reach the break-even customers, 'Never' when the target exceeds
\* them and the growth rate is 0 or the target is undefined, and a finite
\* positive number otherwise; an infinity is never returned.
C17_BreakEvenThreeVariants ==
    (IsBreakEven /\ result.base.exc = "none")
    => /\ result.out.exc = "none"
       /\ \A name \in DOMAIN GROWTH_SCENARIOS :
             /\ name \in DOMAIN result.out.val
             /\ result.out.val[name].months_to_break_even.kind # "inf"
             /\ BreakEvenVariant(result.out.val[name], result.base.totals,
                                 GROWTH_SCENARIOS[name], result.fixed_costs)

IsReset == result.op = "reset_pricing_to_defaults"

\* C18: pricing updates never alter the defaults, and
\* reset_pricing_to_defaults makes pricing_data equal to the startup defaults
\* for every tier and component.
C18_ResetRestoresDefaults ==
    /\ default_pricing = DEFAULT_PRICING
    /\ IsReset => pricing_data = Obj(DEFAULT_PRICING)

\* the renewal price of a duration: 1500 for one month, 4500 for three
RenewalRate(duration) == IF duration = 1 THEN 1500 ELSE 4500

\* C19: every subscription entry has total_revenue = package revenue x
\* customers + renewals x R, with R = 1500 for 1 month and 4500 for 3 months
\* whatever the tier, and total_cost = package cost x customers.
C19_RenewalsAddRevenueOnly ==
    (IsComprehensive /\ result.out.exc = "none")
    => \A n \in DOMAIN result.out.subscriptions :
          LET e == result.out.subscriptions[n]
              package == calculate_package_cost(pricing_data, e.type, e.duration)
          IN  /\ e.total_revenue
                    = package.revenue * e.customers
                      + e.renewals * RenewalRate(e.duration)
              /\ e.total_cost = package.cost * e.customers
              /\ e.renewal_revenue = e.renewals * RenewalRate(e.duration)

\* C19 witness: 3-month entries of two tiers, each with renewals
C19_Witness ==
    /\ IsComprehensive
    /\ result.out.exc = "none"
    /\ {"Normal - 3 Months", "Custom - 3 Months"} \subseteq DOMAIN result.out.subscriptions
    /\ result.out.subscriptions["Normal - 3 Months"].renewals > 0
    /\ result.out.subscriptions["Normal - 3 Months"].renewal_revenue
          = 4500 * result.out.subscriptions["Normal - 3 Months"].renewals
    /\ result.out.subscriptions["Custom - 3 Months"].renewal_revenue
          = 4500 * result.out.subscriptions["Custom - 3 Months"].renewals

\* the amount of one field of one component of a tier, 0 when absent
Amount(tier, component, field) ==
    IF component \in DOMAIN tier /\ field \in DOMAIN tier[component]
    THEN tier[component][field] ELSE 0

\* the components of a package: the meals and delivery entries of the
\* duration, the bracelet and the points
Components(duration) ==
    IF duration = 1
    THEN <<"mealsPerMonth", "deliveryPerMonth", "bracelet", "pointsX10">>
    ELSE <<"meals3Months", "delivery3Months", "bracelet", "pointsX10">>

\* the sum of one field over the components of a package
ComponentSum(tier, duration, field) ==
    Amount(tier, Components(duration)[1], field)
    + Amount(tier, Components(duration)[2], field)
    + Amount(tier, Components(duration)[3], field)
    + Amount(tier, Components(duration)[4], field)

\* the tier's dictionary in the catalogue, empty when the tier is absent
TierOf(pd, subscription_type) ==
    IF subscription_type \in DOMAIN pd.val THEN pd.val[subscription_type]
    ELSE EmptyDict

\* the digitalProfit amount of a tier, 0 when absent
DigitalProfit(tier) ==
    IF "digitalProfit" \in DOMAIN tier THEN tier["digitalProfit"] ELSE 0

\* C20: calculate_package_cost adds digitalProfit to the revenue of every tier
\* but Custom, never to the cost, and sums the per-month entries for duration
\* 1 and the 3-month entries for duration 3.
C20_DigitalProfitAndDurationEntries ==
    (IsPackageCost /\ result.out.exc = "none")
    => LET tier == TierOf(pricing_data, result.subscription_type)
       IN  /\ result.out.cost = ComponentSum(tier, result.duration, "cost")
           /\ result.out.revenue
                 = ComponentSum(tier, result.duration, "selling")
                   + (IF result.subscription_type # "Custom"
                      THEN DigitalProfit(tier) ELSE 0)

\* C20 witness: a 3-month Custom package priced from a catalogue whose Custom
\* tier carries a digitalProfit and whose VIP 3-month meals are not three
\* times the monthly ones
C20_Witness ==
    /\ IsPackageCost
    /\ result.out.exc = "none"
    /\ result.subscription_type = "Custom"
    /\ result.duration = 3
    /\ pricing_data.kind = "object"
    /\ Tiers \subseteq DOMAIN pricing_data.val
    /\ DigitalProfit(pricing_data.val["Custom"]) > 0
    /\ Amount(pricing_data.val["VIP"], "meals3Months", "cost")
          # 3 * Amount(pricing_data.val["VIP"], "mealsPerMonth", "cost")
    /\ result.out.revenue
          = ComponentSum(pricing_data.val["Custom"], 3, "selling")

\* a returned forecast whose scenario has growth_rate >= 0 and retention_rate
\* in [0, 1], over a baseline with non-negative revenue and cost
IsGrowingForecast ==
    /\ IsForecast
    /\ result.out.exc = "none"
    /\ RGe(result.scenario_params["growth_rate"], Q(0))
    /\ RGe(result.scenario_params["retention_rate"], Q(0))
    /\ RGe(Q(1), result.scenario_params["retention_rate"])
    /\ result.base.totals.total_revenue >= 0
    /\ result.base.totals.total_cost >= 0

\* the cumulative field of the row before row M, 0 before the first row
Previous(rows, M, field) == IF M = 1 THEN Q(0) ELSE rows[M - 1][field]

\* C21: with growth_rate >= 0, retention_rate in [0, 1] and a non-negative
\* baseline, cumulative_revenue and cumulative_cost never decrease from one
\* month to the next.
C21_CumulativeNonDecreasing ==
    IsGrowingForecast
    => \A M \in DOMAIN result.out.monthly_breakdown :
          LET rows == result.out.monthly_breakdown
          IN  /\ RGe(rows[M].cumulative_revenue,
                     Previous(rows, M, "cumulative_revenue"))
              /\ RGe(rows[M].cumulative_cost,
                     Previous(rows, M, "cumulative_cost"))

\* C21 witness: a forecast losing half its customers each month, whose monthly
\* revenue falls while the cumulative revenue rises
C21_Witness ==
    /\ IsGrowingForecast
    /\ result.scenario_params["retention_rate"] = Rat(1, 2)
    /\ Len(result.out.monthly_breakdown) >= 2
    /\ RGt(result.out.monthly_breakdown[1].monthly_revenue,
           result.out.monthly_breakdown[2].monthly_revenue)
    /\ RGt(result.out.monthly_breakdown[2].cumulative_revenue,
           result.out.monthly_breakdown[1].cumulative_revenue)

\* a tier with the stored profit of every price entry set to p
TierWithProfit(tier, p) ==
    [k \in DOMAIN tier |->
        IF k = "digitalProfit" THEN tier[k]
        ELSE [f \in DOMAIN tier[k] |-> IF f = "profit" THEN p ELSE tier[k][f]]]

\* the catalogue with every stored profit set to p: a catalogue that differs
\* from pd in stored profit fields only
WithProfit(pd, p) == Obj([t \in DOMAIN pd.val |-> TierWithProfit(pd.val[t], p)])

\* the stored profits tried against the catalogue's own
StoredProfits == {0, 7}

\* C22: the stored 'profit' fields are never used: catalogues that differ in
\* stored profit fields only give the same calculate_package_cost and
\* calculate_comprehensive_results outputs.
C22_StoredProfitIgnored ==
    pricing_data.kind = "object"
    => \A p \in StoredProfits :
          /\ IsPackageCost
             => result.out = calculate_package_cost(WithProfit(pricing_data, p),
                                                    result.subscription_type,
                                                    result.duration)
          /\ IsComprehensive
             => result.out = calculate_comprehensive_results(
                                 WithProfit(pricing_data, p), inputs)

\* C22 witness: results computed from a catalogue holding a stale stored
\* profit, which the compared catalogues do not hold
C22_Witness ==
    /\ IsComprehensive
    /\ result.out.exc = "none"
    /\ "VIP - 1 Month" \in DOMAIN result.out.subscriptions
    /\ pricing_data.kind = "object"
    /\ pricing_data.val["VIP"]["mealsPerMonth"].profit
          # pricing_data.val["VIP"]["mealsPerMonth"].selling
            - pricing_data.val["VIP"]["mealsPerMonth"].cost
    /\ \A p \in StoredProfits : WithProfit(pricing_data, p) # pricing_data
    /\ result.out.subscriptions["VIP - 1 Month"].total_profit
          = result.out.subscriptions["VIP - 1 Month"].total_revenue
            - result.out.subscriptions["VIP - 1 Month"].total_cost

\* customers(m) = customers(m-1) x retention_rate + customers(m-1) x
\* growth_rate / 12, customers(0) = the baseline customers
RECURSIVE CustomersAt(_, _, _)
CustomersAt(totals, scenario_params, m) ==
    IF m = 0 THEN Q(totals.total_customers)
    ELSE RAdd(RMul(CustomersAt(totals, scenario_params, m - 1),
                   scenario_params["retention_rate"]),
              RDiv(RMul(CustomersAt(totals, scenario_params, m - 1),
                        scenario_params["growth_rate"]), Q(12)))

\* the growth factor of month m: customers(m) over the baseline customers
GrowthFactorAt(totals, scenario_params, m) ==
    RDiv(CustomersAt(totals, scenario_params, m), Q(totals.total_customers))

\* C23: the customer count follows customers(m) = customers(m-1) x
\* retention_rate + customers(m-1) x growth_rate / 12 from the baseline
\* customers, and every month's growth factor divides customers(m) by the
\* baseline customer count fixed before the loop.
C23_CustomerRecurrenceFixedBase ==
    (IsForecast /\ result.out.exc = "none")
    => \A M \in DOMAIN result.out.monthly_breakdown :
          LET rows == result.out.monthly_breakdown
              totals == result.base.totals
              sp == result.scenario_params
          IN  /\ rows[M].customers = Trunc(CustomersAt(totals, sp, M))
              /\ rows[M].new_customers
                    = Trunc(RDiv(RMul(CustomersAt(totals, sp, M - 1),
                                      sp["growth_rate"]), Q(12)))
              /\ ~ HasAdjustments(sp)
                 => /\ RSub(rows[M].cumulative_revenue,
                            Previous(rows, M, "cumulative_revenue"))
                          = RMul(RDiv(Q(totals.total_revenue), Q(3)),
                                 GrowthFactorAt(totals, sp, M))
                    /\ RSub(rows[M].cumulative_cost,
                            Previous(rows, M, "cumulative_cost"))
                          = RMul(RDiv(Q(totals.total_cost), Q(3)),
                                 GrowthFactorAt(totals, sp, M))

\* C23 witness: a second month of a growing forecast, whose growth factor is
\* not the month-on-month ratio
C23_Witness ==
    /\ IsForecast
    /\ result.out.exc = "none"
    /\ ~ HasAdjustments(result.scenario_params)
    /\ RGt(result.scenario_params["growth_rate"], Q(0))
    /\ Len(result.out.monthly_breakdown) >= 2
    /\ result.base.totals.total_revenue > 0
    /\ GrowthFactorAt(result.base.totals, result.scenario_params, 2)
          # RDiv(CustomersAt(result.base.totals, result.scenario_params, 2),
                 CustomersAt(result.base.totals, result.scenario_params, 1))
    /\ RSub(result.out.monthly_breakdown[2].cumulative_revenue,
            result.out.monthly_breakdown[1].cumulative_revenue)
          = RMul(RDiv(Q(result.base.totals.total_revenue), Q(3)),
                 GrowthFactorAt(result.base.totals, result.scenario_params, 2))

\* the last row of a monthly breakdown
LastRow(rows) == rows[Len(rows)]

Position(name) == CHOOSE i \in DOMAIN DisplayNames : DisplayNames[i] = name

\* the entries whose total_profit is maximal
Maximal(subs) ==
    {n \in DOMAIN subs :
        \A other \in DOMAIN subs : subs[other].total_profit <= subs[n].total_profit}

\* C25: summary.best_subscription is the first, in iteration order, of the
\* subscription entries with the maximal total_profit, and 'None' with profit
\* 0 when there is no entry.
C25_BestIsFirstMaximal ==
    (IsComprehensive /\ result.out.exc = "none")
    => LET subs == result.out.subscriptions
           summary == result.out.summary
       IN  IF DOMAIN subs = {}
           THEN /\ summary.best_subscription = "None"
                /\ summary.best_subscription_profit = 0
           ELSE /\ summary.best_subscription \in Maximal(subs)
                /\ \A n \in Maximal(subs) :
                      Position(summary.best_subscription) <= Position(n)
                /\ summary.best_subscription_profit
                      = subs[summary.best_subscription].total_profit

\* C25 witness: two entries tied for the maximal profit, the earlier one named
C25_Witness ==
    /\ IsComprehensive
    /\ result.out.exc = "none"
    /\ Cardinality(Maximal(result.out.subscriptions)) >= 2
    /\ result.out.summary.best_subscription \in Maximal(result.out.subscriptions)

IsGrowthImpact == result.op = "calculate_growth_impact"

\* (1 + growth_rate)^m
RECURSIVE Compound(_, _)
Compound(growth_rate, m) ==
    IF m = 0 THEN Q(1)
    ELSE RMul(RAdd(Q(1), growth_rate), Compound(growth_rate, m - 1))

\* C26: calculate_growth_impact records for every month m in 1..periods
\* monthly_revenue = (baseline total_revenue / 3) x (1 + growth_rate)^m and
\* monthly_cost likewise, with no seasonality and no retention, and
\* total_projected_revenue is the sum of the recorded monthly_revenue values.
C26_GrowthImpactCompounds ==
    (IsGrowthImpact /\ result.out.exc = "none")
    => LET rows == result.out.projections
           totals == result.base.totals
       IN  /\ Len(rows) = result.periods
           /\ \A m \in DOMAIN rows :
                 /\ rows[m].month = m
                 /\ rows[m].monthly_revenue
                       = RMul(RDiv(Q(totals.total_revenue), Q(3)),
                              Compound(result.growth_rate, m))
                 /\ rows[m].monthly_cost
                       = RMul(RDiv(Q(totals.total_cost), Q(3)),
                              Compound(result.growth_rate, m))
           /\ result.out.total_projected_revenue
                 = RowSum(rows, Len(rows), "monthly_revenue")

\* C26 witness: a growing projection of several months over a baseline with
\* revenue, in months whose seasonality factors are not 1
C26_Witness ==
    /\ IsGrowthImpact
    /\ result.out.exc = "none"
    /\ result.growth_rate = Rat(1, 10)
    /\ result.periods >= 2
    /\ result.base.totals.total_revenue > 0
    /\ result.out.projections[2].monthly_revenue
          = RMul(RDiv(Q(result.base.totals.total_revenue), Q(3)), Rat(121, 100))
    /\ RGt(result.out.total_projected_revenue,
           result.out.projections[2].monthly_revenue)

\* a scenario that carries quantity overrides
HasQuantityOverrides(scenario_params) ==
    /\ "quantity_adjustments" \in DOMAIN scenario_params
    /\ DOMAIN scenario_params["quantity_adjustments"] # {}

\* C27: a forecast of a scenario with quantity overrides leaves the session's
\* stored input_data as it was before the call, so a DataManager constructed
\* afterwards, which adopts the session's input_data, sees the original inputs.
C27_SessionInputsRestored ==
    [][(result'.op = "_calculate_period_forecast"
          /\ HasQuantityOverrides(result'.scenario_params))
       => session_input_data' = session_input_data]_vars

IsScenarioAnalysis == result.op = "calculate_scenario_analysis"

\* the inputs with the customer and renewal counts multiplied by one
\* scenario's own multipliers (1 where the scenario names none)
TimesOwn(inp, scenario_data) ==
    [k \in DOMAIN inp |->
        IF k \in ComboKeys
        THEN CI(Trunc(RMul(Q(inp[k].customers),
                           IF "customer_multiplier" \in DOMAIN scenario_data
                           THEN scenario_data["customer_multiplier"] ELSE Q(1))),
                Trunc(RMul(Q(inp[k].renewals),
                           IF "renewal_multiplier" \in DOMAIN scenario_data
                           THEN scenario_data["renewal_multiplier"] ELSE Q(1))))
        ELSE inp[k]]

\* C28: calculate_scenario_analysis leaves the customer and renewal counts of
\* data_manager.inputs as they were before the call, and each scenario's
\* totals come from the original inputs times that scenario's own multipliers.
C28_ScenarioAnalysisRestoresInputs ==
    [][result'.op = "calculate_scenario_analysis"
       => /\ inputs' = inputs
          /\ result'.out.exc = "none"
          /\ \A i \in DOMAIN result'.scenarios :
                LET scenario == result'.scenarios[i]
                IN  /\ scenario.name \in DOMAIN result'.out.val
                    /\ result'.out.val[scenario.name].totals
                          = calculate_comprehensive_results(
                               pricing_data,
                               TimesOwn(inputs, scenario.data)).totals]_vars

\* the entries of a tier's pricing the parameter page lets the user edit
EditableEntries == {"mealsPerMonth", "digitalProfit", "bracelet"}

\* the tiers a pricing override can belong to: those whose default pricing it
\* is, up to the editable entries
BelongsTo(pricing_adjustments) ==
    {t \in Tiers :
        /\ DOMAIN pricing_adjustments = DOMAIN DEFAULT_PRICING[t]
        /\ \A k \in DOMAIN pricing_adjustments \ EditableEntries :
              pricing_adjustments[k] = DEFAULT_PRICING[t][k]}

\* a forecast of a scenario with a pricing override, over a catalogue with
\* all its tiers and a baseline with customers
IsPricingOverride(scenario_params, pd, base) ==
    /\ "pricing_adjustments" \in DOMAIN scenario_params
    /\ pd.kind = "object"
    /\ Tiers \subseteq DOMAIN pd.val
    /\ base.exc = "none"
    /\ base.totals.total_customers > 0

\* C29: a pricing override replaces the pricing of the tier it belongs to and
\* leaves the other two tiers as in the live catalogue when the adjusted
\* baseline is recomputed.
C29_OverrideReplacesItsTier ==
    [][(/\ result'.op = "_calculate_period_forecast"
        /\ IsPricingOverride(result'.scenario_params, pricing_data, result'.base))
       => \A t \in BelongsTo(result'.scenario_params["pricing_adjustments"]) :
             result'.out
                = DerivedFrom(
                     calculate_comprehensive_results(
                        Obj(DictSet(pricing_data.val, t,
                                    result'.scenario_params["pricing_adjustments"])),
                        OverriddenInputs(inputs, result'.scenario_params)),
                     result'.base, result'.scenario_params, result'.months)]_vars

\* the last call was an import_pricing_config that returned True
ImportAccepted == IsImport /\ result.exc = "none" /\ result.ret

\* C30: calculate_comprehensive_results on a catalogue that
\* import_pricing_config has just accepted completes without raising.
C30_AcceptedImportComputes ==
    [][(ImportAccepted /\ result'.op = "calculate_comprehensive_results")
       => result'.out.exc = "none"]_vars

====
